---- MODULE Spec2Model ----
(***************************************************************************)
(* Model of app.py: a Streamlit dashboard that fetches a user list from a  *)
(* REST endpoint (fetch_and_store_data), replaces the SQLite table `users` *)
(* with it, and reads the table back with two derived columns (load_data). *)
(*                                                                         *)
(* Text is a sequence of one-character strings.  A nullable value is the   *)
(* record [isNone, s]: Python's None / SQL NULL is None, the text t is     *)
(* T(t).  The table is the set of its rows (the primary key orders them).  *)
(***************************************************************************)
EXTENDS Integers, Sequences, FiniteSets, TLC

(***************************************************************************)
(* Bounds of the model.                                                    *)
(***************************************************************************)
MaxLen == 3          \* longest generated name / email in SpecView
MaxUsers == 2        \* longest response body
MaxTriggers == 3     \* presses of the refresh button in one behaviour
MaxNow == 5400       \* the clock stops here (seconds)
TickSeconds == 1800  \* seconds that pass in one Tick

(***************************************************************************)
(* Program constants.                                                      *)
(***************************************************************************)
TTL == 3600          \* @st.cache_data(ttl=3600)
StatusOK == 200      \* response.status_code != 200
SleepSeconds == 1    \* time.sleep(1)

(***************************************************************************)
(* Values and text.                                                        *)
(***************************************************************************)
None == [isNone |-> TRUE, s |-> <<>>]
T(t) == [isNone |-> FALSE, s |-> t]

UpperCase == <<"A","B","C","D","E","F","G","H","I","J","K","L","M",
               "N","O","P","Q","R","S","T","U","V","W","X","Y","Z">>
LowerCase == <<"a","b","c","d","e","f","g","h","i","j","k","l","m",
               "n","o","p","q","r","s","t","u","v","w","x","y","z">>

\* str.lower(), one character
LowerChar(c) ==
    IF \E i \in 1..26 : UpperCase[i] = c
    THEN LowerCase[CHOOSE i \in 1..26 : UpperCase[i] = c]
    ELSE c

\* str.lower()
lower(t) == [i \in 1..Len(t) |-> LowerChar(t[i])]

\* '@' in x
HasAt(t) == \E i \in 1..Len(t) : t[i] = "@"

\* x.split('@'): the pieces between the separators, left to right
RECURSIVE split(_)
split(t) ==
    IF ~HasAt(t) THEN <<t>>
    ELSE LET i == CHOOSE j \in 1..Len(t) :
                     t[j] = "@" /\ \A k \in 1..(j-1) : t[k] # "@"
         IN  <<SubSeq(t, 1, i-1)>> \o split(SubSeq(t, i+1, Len(t)))

\* Series.astype(str) on one cell: None becomes the text 'None'
astype_str(v) == IF v.isNone THEN <<"N","o","n","e">> ELSE v.s

\* df['name'].astype(str).apply(len), one cell
NameLengthNullSafe(v) == IF v.isNone THEN 0 ELSE Len(v.s)
name_length(v) == Len(astype_str(v))

\* df['email'].astype(str).apply(lambda x: ...), one cell
EmailDomainFirstPiece(v) ==
    LET x == astype_str(v)
    IN  IF HasAt(x) THEN T(lower(split(x)[2])) ELSE None
email_domain(v) ==
    LET x == astype_str(v)
    IN  IF HasAt(x) THEN T(lower(split(x)[Len(split(x))])) ELSE None

(***************************************************************************)
(* The users table and the derived view.                                   *)
(***************************************************************************)
Columns == {"id", "name", "username", "email", "phone", "website"}

\* one row of the DataFrame load_data returns
DerivedRow(r) ==
    [id |-> r.id, name |-> r.name, username |-> r.username,
     email |-> r.email, phone |-> r.phone, website |-> r.website,
     name_length |-> name_length(r.name),
     email_domain |-> email_domain(r.email)]

\* the DataFrame of a table's rows
DerivedView(rs) == {DerivedRow(r) : r \in rs}


\* the table's rows never carry two rows of one primary key
UniqueIds(rs) == \A r1, r2 \in rs : r1.id = r2.id => r1 = r2

(***************************************************************************)
(* The remote endpoint: JSON objects it may serve.  u1 is a full record    *)
(* with a key the program ignores, u1b is the same person with most keys   *)
(* absent, u2 is a second person.  NotAnObject is an array element that is *)
(* no JSON object (u.get raises).                                          *)
(***************************************************************************)
u1 ==
    [id |-> 1,
     name |-> T(<<"L","e","a","n","n","e"," ","G","r","a","h","a","m">>),
     username |-> T(<<"B","r","e","t">>),
     email |-> T(<<"S","@","a",".","B">>),
     phone |-> T(<<"1">>),
     website |-> T(<<"h",".","o">>),
     company |-> T(<<"R">>)]
u1b == [id |-> 1, username |-> T(<<"B">>)]
u2 ==
    [id |-> 2,
     name |-> T(<<"E","r","v","i","n">>),
     username |-> T(<<"A">>),
     email |-> T(<<"a",".","b","@","E","x","a","m","p","l","e",".","C","O","M">>),
     phone |-> None,
     website |-> T(<<>>)]
Obj(o) == [isObj |-> TRUE, o |-> o]
NotAnObject == [isObj |-> FALSE, o |-> [id |-> 0]]
Elements == {Obj(u1), Obj(u1b), Obj(u2), NotAnObject}

\* the response bodies that parse as a JSON array
Bodies == UNION {[1..n -> Elements] : n \in 0..MaxUsers}

\* "N well-formed records": JSON objects, one per id
WellFormed(users) ==
    /\ \A i \in 1..Len(users) : users[i].isObj
    /\ \A i, j \in 1..Len(users) : users[i].o.id = users[j].o.id => i = j

\* what requests.get / response.json() can produce
Responses ==
    {[kind |-> "exception", status_code |-> 0, json |-> FALSE, users |-> <<>>]}
    \cup {[kind |-> "http", status_code |-> c, json |-> FALSE, users |-> <<>>] :
             c \in {404, 500}}
    \cup {[kind |-> "http", status_code |-> StatusOK, json |-> FALSE, users |-> <<>>]}
    \cup {[kind |-> "http", status_code |-> StatusOK, json |-> TRUE, users |-> b] :
             b \in Bodies}
NoResponse == [kind |-> "none", status_code |-> 0, json |-> FALSE, users |-> <<>>]

(***************************************************************************)
(* fetch_and_store_data, the function body.                                *)
(***************************************************************************)
\* u.get(k)
get(u, k) == IF k \in DOMAIN u THEN u[k] ELSE None

\* the six values bound to the INSERT
Row(u) ==
    [id |-> u.id, name |-> get(u, "name"), username |-> get(u, "username"),
     email |-> get(u, "email"), phone |-> get(u, "phone"),
     website |-> get(u, "website")]

\* INSERT OR REPLACE INTO users ...
InsertKeepOld(rs, r) == IF \E q \in rs : q.id = r.id THEN rs ELSE rs \cup {r}
InsertOrReplace(rs, r) == {q \in rs : q.id # r.id} \cup {r}

\* DROP TABLE IF EXISTS users; CREATE TABLE IF NOT EXISTS users (...)
DropKeepRows(d) == [exists |-> TRUE, rows |-> d.rows]
DropAndCreate(d) == [exists |-> TRUE, rows |-> {}]

\* for u in users: cur.execute(INSERT ...); stops at the first element that raises
RECURSIVE InsertAll(_, _, _)
InsertAll(rs, users, i) ==
    IF i > Len(users) THEN [ok |-> TRUE, rows |-> rs]
    ELSE IF ~users[i].isObj THEN [ok |-> FALSE, rows |-> rs]
    ELSE InsertAll(InsertOrReplace(rs, Row(users[i].o)), users, i + 1)

\* return values: None, or len(users)
RNone == [isNone |-> TRUE, n |-> 0]
RCount(n) == [isNone |-> FALSE, n |-> n]
\* `if result:`
Truthy(r) == ~r.isNone /\ r.n # 0

\* st.error(...) inside the function
NoError == [kind |-> "none", code |-> 0]
StatusError(c) == [kind |-> "status", code |-> c]
ExceptionError == [kind |-> "exception", code |-> 0]

\* One execution of the body on response resp and database d.  The DROP and
\* CREATE commit on their own; the INSERTs run in one transaction that
\* conn.commit() ends, and that is rolled back when an exception discards conn.
StoreBeforeStatusCheck(resp, d) ==
    IF resp.kind = "exception"
    THEN [result |-> RNone, error |-> ExceptionError, db |-> d]
    ELSE IF resp.status_code # StatusOK
    THEN [result |-> RNone, error |-> StatusError(resp.status_code),
          db |-> DropAndCreate(d)]
    ELSE IF ~resp.json
    THEN [result |-> RNone, error |-> ExceptionError, db |-> d]
    ELSE LET ins == InsertAll(DropAndCreate(d).rows, resp.users, 1)
         IN  IF ins.ok
             THEN [result |-> RCount(Len(resp.users)), error |-> NoError,
                   db |-> [exists |-> TRUE, rows |-> ins.rows]]
             ELSE [result |-> RNone, error |-> ExceptionError,
                   db |-> DropAndCreate(d)]
fetch_and_store_data(resp, d) ==
    IF resp.kind = "exception"
    THEN [result |-> RNone, error |-> ExceptionError, db |-> d]
    ELSE IF resp.status_code # StatusOK
    THEN [result |-> RNone, error |-> StatusError(resp.status_code), db |-> d]
    ELSE IF ~resp.json
    THEN [result |-> RNone, error |-> ExceptionError, db |-> d]
    ELSE LET ins == InsertAll(DropAndCreate(d).rows, resp.users, 1)
         IN  IF ins.ok
             THEN [result |-> RCount(Len(resp.users)), error |-> NoError,
                   db |-> [exists |-> TRUE, rows |-> ins.rows]]
             ELSE [result |-> RNone, error |-> ExceptionError,
                   db |-> DropAndCreate(d)]

(***************************************************************************)
(* load_data, the function body.                                           *)
(***************************************************************************)
\* pd.read_sql_query('SELECT * FROM users', conn): raises without the table
ReadEmptyWhenAbsent(d) == [ok |-> TRUE, rows |-> d.rows]
read_sql_query(d) == [ok |-> d.exists, rows |-> IF d.exists THEN d.rows ELSE {}]

\* the DataFrame returned, or the exception raised
load_data(d) ==
    LET q == read_sql_query(d)
    IN  [ok |-> q.ok, df |-> DerivedView(q.rows)]

(***************************************************************************)
(* State.                                                                  *)
(***************************************************************************)
VARIABLES
    db,            \* the file DB_NAME: [exists, rows] of table users
    fetchCache,    \* st.cache_data entry of fetch_and_store_data (ttl=3600)
    loadCache,     \* st.cache_data entry of load_data
    now,           \* the clock, in seconds
    pc,            \* where the script run of main() stands: "idle" or "load"
    triggers,      \* presses of the refresh button so far
    httpRequests,  \* requests.get calls issued so far
    last,          \* the latest call of fetch_and_store_data, as main saw it
    lastLoad       \* the latest call of load_data, as main saw it

seqVars == <<db, fetchCache, loadCache, now, pc, triggers, httpRequests, last, lastLoad>>

\* State of the calls of fetch_and_store_data that run side by side in
\* different sessions, each on its own connection to the file.
VARIABLES
    spc,           \* per session: the statement its call executes next
    susers,        \* per session: users = response.json()
    sidx,          \* per session: the element the for loop inserts next
    txn,           \* per session: its open transaction, [open, rows]
    lock,          \* the session whose transaction holds the write lock, or 0
    sresult,       \* per session: what its call returned
    commits        \* the sessions whose conn.commit() ran, oldest first

concVars == <<spc, susers, sidx, txn, lock, sresult, commits>>

Sessions == {1, 2}
NoTxn == [open |-> FALSE, rows |-> {}]
\* no call is running side by side
ConcIdle ==
    /\ spc = [s \in Sessions |-> "done"]
    /\ susers = [s \in Sessions |-> <<>>]
    /\ sidx = [s \in Sessions |-> 1]
    /\ txn = [s \in Sessions |-> NoTxn]
    /\ lock = 0
    /\ sresult = [s \in Sessions |-> RNone]
    /\ commits = <<>>

EmptyFetch == [live |-> FALSE, value |-> RNone, error |-> NoError, at |-> 0]
EmptyLoad == [live |-> FALSE, df |-> {}]

\* a memoized entry answers the call while it is younger than its ttl
CacheHit(entry, t) == entry.live /\ t - entry.at < TTL

NoCall ==
    [called |-> FALSE, fresh |-> FALSE, response |-> NoResponse,
     before |-> [exists |-> FALSE, rows |-> {}], result |-> RNone,
     error |-> NoError, hadPrev |-> FALSE, prevResult |-> RNone,
     prevInWindow |-> FALSE, runInWindow |-> FALSE, at |-> 0, ranAt |-> 0]
NoLoad == [called |-> FALSE, ok |-> FALSE, df |-> {}, guidance |-> FALSE,
           absent |-> FALSE, repeat |-> FALSE]

\* the tables an earlier run of the program can have left in the file
Tables == {rs \in SUBSET {Row(u1), Row(u1b), Row(u2)} : UniqueIds(rs)}
PriorDbs == {[exists |-> FALSE, rows |-> {}]}
            \cup {[exists |-> TRUE, rows |-> rs] : rs \in Tables}

(***************************************************************************)
(* main(): the refresh button (lines 268-275).                             *)
(***************************************************************************)
\* `if result:` guards st.cache_data.clear()
ClearOnEveryPress(result) == TRUE
ShouldClear(result) == Truthy(result)

main_refresh ==
    /\ pc = "idle"
    /\ triggers < MaxTriggers
    /\ \E resp \in Responses :
         LET hit == CacheHit(fetchCache, now)
             run == fetch_and_store_data(resp, db)
             result == IF hit THEN fetchCache.value ELSE run.result
             error == IF hit THEN fetchCache.error ELSE run.error
             stored == IF hit THEN fetchCache
                       ELSE [live |-> TRUE, value |-> result,
                             error |-> error, at |-> now]
         IN  /\ db' = IF hit THEN db ELSE run.db
             /\ httpRequests' = IF hit THEN httpRequests ELSE httpRequests + 1
             /\ IF ShouldClear(result)
                THEN /\ fetchCache' = EmptyFetch
                     /\ loadCache' = EmptyLoad
                     /\ now' = now + SleepSeconds
                ELSE /\ fetchCache' = stored
                     /\ UNCHANGED <<loadCache, now>>
             /\ last' = [called |-> TRUE, fresh |-> ~hit,
                         response |-> IF hit THEN NoResponse ELSE resp,
                         before |-> db, result |-> result, error |-> error,
                         hadPrev |-> last.called, prevResult |-> last.result,
                         prevInWindow |-> last.called /\ now - last.at < TTL,
                         runInWindow |-> last.called /\ now - last.ranAt < TTL,
                         at |-> now,
                         ranAt |-> IF hit THEN fetchCache.at ELSE now]
    /\ pc' = "load"
    /\ triggers' = triggers + 1
    /\ UNCHANGED <<lastLoad, concVars>>

(***************************************************************************)
(* main(): df = load_data() and the except branch (lines 289-390).         *)
(***************************************************************************)
LoadAndPersist ==
    LET out == IF loadCache.live THEN [ok |-> TRUE, df |-> loadCache.df]
               ELSE load_data(db)
    IN  /\ loadCache' = IF out.ok THEN [live |-> TRUE, df |-> out.df]
                        ELSE loadCache
        /\ lastLoad' = [called |-> TRUE, ok |-> out.ok,
                        df |-> IF out.ok THEN out.df ELSE {},
                        guidance |-> ~out.ok,
                        absent |-> ~db.exists,
                        repeat |-> lastLoad.called /\ pc = "idle"]
        /\ pc' = "idle"
        /\ db' = IF out.ok THEN [exists |-> TRUE, rows |-> out.df] ELSE db
        /\ UNCHANGED <<fetchCache, now, triggers, httpRequests, last, concVars>>
main_load ==
    LET out == IF loadCache.live THEN [ok |-> TRUE, df |-> loadCache.df]
               ELSE load_data(db)
    IN  /\ loadCache' = IF out.ok THEN [live |-> TRUE, df |-> out.df]
                        ELSE loadCache
        /\ lastLoad' = [called |-> TRUE, ok |-> out.ok,
                        df |-> IF out.ok THEN out.df ELSE {},
                        guidance |-> ~out.ok,
                        absent |-> ~db.exists,
                        repeat |-> lastLoad.called /\ pc = "idle"]
        /\ pc' = "idle"
        /\ UNCHANGED <<db, fetchCache, now, triggers, httpRequests, last, concVars>>

\* time passes between two script runs
Tick ==
    /\ pc = "idle"
    /\ now + TickSeconds <= MaxNow
    /\ now' = now + TickSeconds
    /\ UNCHANGED <<db, fetchCache, loadCache, pc, triggers, httpRequests,
                   last, lastLoad, concVars>>

Init ==
    /\ db \in PriorDbs
    /\ fetchCache = EmptyFetch
    /\ loadCache = EmptyLoad
    /\ now = 0
    /\ pc = "idle"
    /\ triggers = 0
    /\ httpRequests = 0
    /\ last = NoCall
    /\ lastLoad = NoLoad
    /\ ConcIdle

vars == <<seqVars, concVars>>
Next == main_refresh \/ main_load \/ Tick
Spec == Init /\ [][Next]_vars

(***************************************************************************)
(* The derived columns on any text: the file holds one row whose name and  *)
(* email are any text of at most MaxLen characters (or NULL, or one of the *)
(* two sample values), and main loads it.                                  *)
(***************************************************************************)
Alphabet == {"a", "B", "@"}
Texts == UNION {[1..n -> Alphabet] : n \in 0..MaxLen}
SampleName == <<"L","e","a","n","n","e"," ","G","r","a","h","a","m">>
SampleEmail == <<"a",".","b","@","E","x","a","m","p","l","e",".","C","O","M">>
Names == {None, T(SampleName)} \cup {T(t) : t \in Texts}
Emails == {None, T(SampleEmail)} \cup {T(t) : t \in Texts}

InitView ==
    /\ db \in {[exists |-> TRUE,
                rows |-> {[id |-> 1, name |-> n, username |-> None,
                           email |-> e, phone |-> None, website |-> None]}] :
                   n \in Names, e \in Emails}
    /\ fetchCache = EmptyFetch
    /\ loadCache = EmptyLoad
    /\ now = 0
    /\ pc = "idle"
    /\ triggers = 0
    /\ httpRequests = 0
    /\ last = NoCall
    /\ lastLoad = NoLoad
    /\ ConcIdle
NextView == main_load
SpecView == InitView /\ [][NextView]_vars

(***************************************************************************)
(* Properties.                                                             *)
(***************************************************************************)
\* the latest call of fetch_and_store_data ran the body and got this status
Ran(code) ==
    /\ last.called
    /\ last.fresh
    /\ last.response.kind = "http"
    /\ last.response.status_code = code

\* C1: after a fetch that returned N well-formed records, whatever the file
\* held before, the users table holds exactly those N records, field for field
\* on the six columns, and no row of an earlier refresh; the call returns N.
C1_TableIsExactlyTheFetchedRecords ==
    (Ran(StatusOK) /\ last.response.json /\ WellFormed(last.response.users))
    => LET users == last.response.users
       IN  /\ db.exists
           /\ Cardinality(db.rows) = Len(users)
           /\ \A i \in 1..Len(users) :
                \E r \in db.rows :
                    \A k \in Columns : r[k] = get(users[i].o, k)
           /\ \A r \in db.rows : \E i \in 1..Len(users) : r.id = users[i].o.id
           /\ last.result = RCount(Len(users))

\* a second refresh that returned fewer records than the first one stored
C1_Witness ==
    /\ Ran(StatusOK) /\ last.response.json /\ WellFormed(last.response.users)
    /\ last.hadPrev /\ Truthy(last.prevResult)
    /\ Cardinality(last.before.rows) = 2
    /\ Len(last.response.users) = 1
    /\ db.rows = {Row(u1b)}

\* C2: when the endpoint answers with a status other than 200, the call ends
\* in the failure that carries that status code and the file is what it was
\* before the call.
C2_NonSuccessStatusLeavesSnapshot ==
    \A code \in {404, 500} :
        Ran(code) => /\ last.result = RNone
                     /\ last.error = StatusError(code)
                     /\ db = last.before

\* a 500 answered while the table held rows
C2_Witness ==
    /\ Ran(500)
    /\ last.before.exists
    /\ last.before.rows # {}
    /\ db.rows # {}

\* C3 (as claimed): a refresh that changed the file leaves no memoized
\* load_data result behind, and every load returns the derived view of the
\* file as it is.
C3_LoadReturnsCurrentSnapshot ==
    /\ (pc = "load" /\ last.called /\ db # last.before) => ~loadCache.live
    /\ (pc = "idle" /\ lastLoad.called)
         => /\ lastLoad.ok = db.exists
            /\ lastLoad.ok => lastLoad.df = DerivedView(db.rows)

\* C4 (as claimed): a trigger within 3600 s of an earlier trigger issues no
\* new request.
C4_SecondTriggerInWindowReuses ==
    (last.called /\ last.hadPrev /\ last.prevInWindow) => ~last.fresh

\* C4 (amended): a trigger within 3600 s of the run that produced the
\* memoized result returns that result and issues no new request, provided
\* main did not clear the cache after that run (its result was None or 0).
C4_TriggerInWindowReusesUnlessCleared ==
    (last.called /\ last.hadPrev /\ ~Truthy(last.prevResult) /\ last.runInWindow)
    => /\ ~last.fresh
       /\ last.result = last.prevResult
       /\ httpRequests < triggers

\* a second trigger, later than the first but inside its window, that reused
C4_Witness ==
    /\ last.called /\ last.hadPrev /\ ~Truthy(last.prevResult)
    /\ last.runInWindow
    /\ last.at > last.ranAt
    /\ ~last.fresh

\* C5: load_data on a file without the users table ends in the failure that
\* main answers with the guidance to refresh, never in a result.
C5_LoadWithoutTableFails ==
    (lastLoad.called /\ lastLoad.absent)
    => /\ ~lastLoad.ok
       /\ lastLoad.guidance
       /\ lastLoad.df = {}
       /\ ~loadCache.live

\* a load before any refresh has run
C5_Witness ==
    /\ lastLoad.called /\ lastLoad.absent
    /\ ~last.called
    /\ ~lastLoad.ok

\* the text after the last '@' of t, lower-cased
AfterLastAt(t) ==
    LET i == CHOOSE j \in 1..Len(t) :
                 t[j] = "@" /\ \A k \in (j+1)..Len(t) : t[k] # "@"
    IN  [j \in 1..(Len(t) - i) |-> LowerChar(t[i + j])]

\* C6: every row of the view has email_domain = the text after the last '@'
\* of email, lower-cased, and null when email is null or has no '@'.
C6_EmailDomain ==
    \A r \in lastLoad.df :
        r.email_domain =
            IF r.email.isNone \/ ~(\E j \in 1..Len(r.email.s) : r.email.s[j] = "@")
            THEN None
            ELSE T(AfterLastAt(r.email.s))

\* 'a.b@Example.COM' gives 'example.com'
C6_Witness ==
    \E r \in lastLoad.df :
        /\ r.email = T(SampleEmail)
        /\ r.email_domain = T(<<"e","x","a","m","p","l","e",".","c","o","m">>)

\* C7: every row of the view has name_length = the number of characters of
\* name, and 4 when name is null.
C7_NameLength ==
    \A r \in lastLoad.df :
        /\ r.name_length = IF r.name.isNone THEN 4 ELSE Len(r.name.s)
        /\ r.name = T(SampleName) => r.name_length = 13

\* a row without a name
C7_Witness ==
    \E r \in lastLoad.df : r.name.isNone /\ r.name_length = 4

\* C8: a load changes neither the table nor its rows, the stored rows have
\* the six columns only, and a load that follows a load with no refresh
\* between them returns what the earlier one returned.
C8_LoadHasNoSideEffect ==
    [][main_load =>
         /\ db' = db
         /\ \A r \in db'.rows : DOMAIN r = Columns
         /\ (lastLoad.called /\ pc = "idle")
              => /\ lastLoad'.ok = lastLoad.ok
                 /\ lastLoad'.df = lastLoad.df]_vars

\* two loads in a row of a table that holds rows
C8_Witness ==
    /\ lastLoad.called /\ lastLoad.repeat /\ lastLoad.ok
    /\ lastLoad.df # {}
    /\ db.rows # {}

\* C9 (as claimed): the trigger after a failed trigger issues a new request.
C9_TriggerAfterFailureRefetches ==
    (last.called /\ last.hadPrev /\ last.prevResult.isNone) => last.fresh

(***************************************************************************)
(* Two calls of fetch_and_store_data side by side (lines 111-138).  Each   *)
(* call holds its fetched users and runs its statements one at a time on   *)
(* its own connection.  The file is SQLite's: DROP and CREATE commit on    *)
(* their own; the first INSERT opens a transaction that holds the write    *)
(* lock until conn.commit(), and whose rows no other connection sees       *)
(* before that; a statement that writes while another connection holds the *)
(* lock waits for it, and raises 'database is locked' when the wait times  *)
(* out.                                                                    *)
(***************************************************************************)
\* the script state the calls do not touch
scriptVars == <<fetchCache, loadCache, now, pc, triggers, httpRequests, last, lastLoad>>

\* the rows a call means to store
RowsOf(users) == {Row(users[i].o) : i \in {j \in 1..Len(users) : users[j].isObj}}

\* the write lock is free for session s
CanWrite(s) == lock \in {0, s}

\* cur.execute('DROP TABLE IF EXISTS users;')
ConnDrop(s) ==
    /\ spc[s] = "drop"
    /\ CanWrite(s)
    /\ db' = [exists |-> FALSE, rows |-> {}]
    /\ spc' = [spc EXCEPT ![s] = "create"]
    /\ UNCHANGED <<susers, sidx, txn, lock, sresult, commits, scriptVars>>

\* cur.execute('CREATE TABLE IF NOT EXISTS users (...)')
ConnCreate(s) ==
    /\ spc[s] = "create"
    /\ CanWrite(s)
    /\ db' = IF db.exists THEN db ELSE [exists |-> TRUE, rows |-> {}]
    /\ spc' = [spc EXCEPT ![s] = "insert"]
    /\ UNCHANGED <<susers, sidx, txn, lock, sresult, commits, scriptVars>>

\* one pass of the for loop: cur.execute('INSERT OR REPLACE ...', (u.get(...), ...))
ConnInsert(s) ==
    /\ spc[s] = "insert"
    /\ sidx[s] <= Len(susers[s])
    /\ susers[s][sidx[s]].isObj
    /\ db.exists
    /\ CanWrite(s)
    /\ txn' = [txn EXCEPT ![s] =
                 [open |-> TRUE,
                  rows |-> InsertOrReplace(IF txn[s].open THEN txn[s].rows
                                           ELSE db.rows,
                                           Row(susers[s][sidx[s]].o))]]
    /\ lock' = s
    /\ sidx' = [sidx EXCEPT ![s] = sidx[s] + 1]
    /\ UNCHANGED <<db, spc, susers, sresult, commits, scriptVars>>

\* conn.commit(); conn.close(); return len(users)
ConnCommit(s) ==
    /\ spc[s] = "insert"
    /\ sidx[s] > Len(susers[s])
    /\ db' = IF txn[s].open THEN [exists |-> TRUE, rows |-> txn[s].rows] ELSE db
    /\ lock' = IF lock = s THEN 0 ELSE lock
    /\ txn' = [txn EXCEPT ![s] = NoTxn]
    /\ spc' = [spc EXCEPT ![s] = "done"]
    /\ sresult' = [sresult EXCEPT ![s] = RCount(Len(susers[s]))]
    /\ commits' = Append(commits, s)
    /\ UNCHANGED <<susers, sidx, scriptVars>>

\* the statement session s is about to execute raises
Raises(s) ==
    IF spc[s] \in {"drop", "create"} THEN ~CanWrite(s)
    ELSE /\ spc[s] = "insert"
         /\ sidx[s] <= Len(susers[s])
         /\ (~susers[s][sidx[s]].isObj \/ ~db.exists \/ ~CanWrite(s))

\* except Exception: st.error(...); return None.  The connection is dropped
\* with the frame, which rolls its transaction back.
ConnRaise(s) ==
    /\ Raises(s)
    /\ lock' = IF lock = s THEN 0 ELSE lock
    /\ txn' = [txn EXCEPT ![s] = NoTxn]
    /\ spc' = [spc EXCEPT ![s] = "done"]
    /\ sresult' = [sresult EXCEPT ![s] = RNone]
    /\ UNCHANGED <<db, susers, sidx, commits, scriptVars>>

InitConc ==
    /\ db \in PriorDbs
    /\ fetchCache = EmptyFetch
    /\ loadCache = EmptyLoad
    /\ now = 0
    /\ pc = "idle"
    /\ triggers = 0
    /\ httpRequests = 0
    /\ last = NoCall
    /\ lastLoad = NoLoad
    /\ spc = [s \in Sessions |-> "drop"]
    /\ susers \in [Sessions -> Bodies]
    /\ sidx = [s \in Sessions |-> 1]
    /\ txn = [s \in Sessions |-> NoTxn]
    /\ lock = 0
    /\ sresult = [s \in Sessions |-> RNone]
    /\ commits = <<>>

NextConc ==
    \E s \in Sessions :
        \/ ConnDrop(s)
        \/ ConnCreate(s)
        \/ ConnInsert(s)
        \/ ConnCommit(s)
        \/ ConnRaise(s)
SpecConc == InitConc /\ [][NextConc]_vars

\* both calls returned len(users), and the one that committed last is s
BothStored(s) ==
    /\ \A q \in Sessions : spc[q] = "done" /\ ~sresult[q].isNone
    /\ Len(commits) = 2
    /\ commits[2] = s

\* C10: nothing orders two refresh calls that run side by side, so the table
\* they leave can equal neither call's collection (C10_Witness).  What it
\* holds then: every row of the call that committed last, and besides those
\* only rows of the other call whose id the last one did not write.
C10_InterleavedRefreshesMixRows ==
    \A s \in Sessions :
        BothStored(s)
        => LET mine == RowsOf(susers[s])
               other == UNION {RowsOf(susers[q]) : q \in Sessions \ {s}}
           IN  /\ db.exists
               /\ \A r \in mine :
                    (\A i \in 1..Len(susers[s]) :
                        Row(susers[s][i].o) = r
                        => \A j \in (i+1)..Len(susers[s]) :
                               susers[s][j].o.id # r.id)
                    => r \in db.rows
               /\ \A r \in db.rows :
                    \/ r \in mine
                    \/ r \in other /\ \A m \in mine : m.id # r.id

\* both calls stored well-formed collections and the table is neither
C10_Witness ==
    /\ \E s \in Sessions : BothStored(s)
    /\ \A s \in Sessions : WellFormed(susers[s]) /\ db.rows # RowsOf(susers[s])
    /\ \E r1, r2 \in db.rows :
         /\ r1 \in RowsOf(susers[1]) \ RowsOf(susers[2])
         /\ r2 \in RowsOf(susers[2]) \ RowsOf(susers[1])

====
